---- MODULE Spec2Model ----
(***************************************************************************)
(* LinkedIn post generator: the vector store (app/vectorstore/store.py),   *)
(* the generation service (app/services/generator.py), the LLM chain       *)
(* (app/chains/linkedin_chain.py), the validators                          *)
(* (app/utils/validators.py) and the HTTP endpoints (app/api/post.py).     *)
(*                                                                         *)
(* The endpoints are coroutines of one event loop and the store calls are  *)
(* synchronous, so a request runs atomically from one awaited LLM call to  *)
(* the next: an action is one such stretch of a handler.                   *)
(***************************************************************************)
EXTENDS Integers, Sequences, FiniteSets, TLC

\* ------------------------------------------------------------------ bounds
\* Number of /generate requests issued in a behaviour.
MaxReqs == 2
\* Longest retrieval list handed to the pure context functions.
MaxResults == 3

Reqs == 1..MaxReqs
\* uuid4 values that add_post can draw for a point id; scroll returns points
\* in id order, so the draw decides where a new point lands in a scroll.
PostIds == 1..MaxReqs

Users == {"u1", "u2"}
Topics == {"A", "B"}
ReqTones == {"professional"}
ReqAudiences == {"general"}
ReqLengths == {"medium"}
StyleModes == {"similar", "different"}
\* Texts the generation backend can return.
Texts == {"good", "short"}
\* limit values a caller passes to the history endpoint (default 10).
Limits == {1, 2, 10}

\* Python None for the optional series_id / series_order (falsy, like "").
None == 0
\* A series_id a client invents, which uuid4 never returns.
ClientSids == {9}

\* ------------------------------------------------------------ settings.py
\* similarity_threshold = 0.75, in percent.
similarity_threshold == 75
max_similar_posts_to_retrieve == 3
max_post_length == 3000
min_post_length == 100

\* --------------------------------------------------------------- helpers
Range(s) == {s[i] : i \in DOMAIN s}

Min(S) == CHOOSE x \in S : \A y \in S : x <= y

\* The elements of a finite set of integers in ascending order.
RECURSIVE Ascending(_)
Ascending(S) == IF S = {} THEN <<>> ELSE <<Min(S)>> \o Ascending(S \ {Min(S)})

Take(s, n) == SubSeq(s, 1, IF Len(s) < n THEN Len(s) ELSE n)

\* --------------------------------------------------------------- state
VARIABLES
    store,    \* the Qdrant collection: point id -> payload
    clock,    \* datetime.utcnow(), as a logical time
    minted,   \* series ids uuid4 has returned so far
    pc,       \* per request: "idle", "await", "done", "error"
    req,      \* per request in flight: the PostRequest
    loc,      \* per request in flight: the locals of generate_post
    last,     \* the call that completed latest: its arguments and its result
    fnIn,     \* a retrieval result list handed to the pure context functions
    fnOut     \* what the pure context functions return for fnIn

vars == <<store, clock, minted, pc, req, loc, last, fnIn, fnOut>>

\* ------------------------------------------------- vectorstore/store.py
\* f"Topic: {topic}\n\nPost: {post_content}": the text that is embedded.
Document(topic, post_content) == <<topic, post_content>>

\* Cosine similarity, in percent, of the embedding of a query text and the
\* embedding of a stored document.  The embedding model is an external
\* function; this table gives it scores above, at and below the threshold.
SimScore(query, document) ==
    IF document[1] = query
    THEN (IF document[2] = "good" THEN 90 ELSE 75)
    ELSE 40

\* A payload without its created_at.
PayloadUndated(user_id, topic, post_content, tone, audience, length, series_id, series_order, created_at) ==
    [user_id |-> user_id, topic |-> topic, post_content |-> post_content,
     document |-> Document(topic, post_content), tone |-> tone,
     audience |-> audience, length |-> length, series_id |-> series_id,
     series_order |-> series_order, created_at |-> None]

\* The payload add_post builds for a point.
Payload(user_id, topic, post_content, tone, audience, length, series_id, series_order, created_at) ==
    [user_id |-> user_id, topic |-> topic, post_content |-> post_content,
     document |-> Document(topic, post_content), tone |-> tone,
     audience |-> audience, length |-> length, series_id |-> series_id,
     series_order |-> series_order, created_at |-> created_at]

\* client.upsert of one point: a point with the same id is overwritten.
Upsert(st, post_id, payload) ==
    [i \in DOMAIN st \cup {post_id} |-> IF i = post_id THEN payload ELSE st[i]]

\* add_post: the collection after the call, for the post_id uuid4 returned.
add_post(st, post_id, user_id, topic, post_content, tone, audience, length, series_id, series_order, now) ==
    Upsert(st, post_id,
           Payload(user_id, topic, post_content, tone, audience, length,
                   series_id, series_order, now))

\* The "metadata" dict the read methods build from a payload.
Metadata(p) ==
    [user_id |-> p.user_id, topic |-> p.topic, post_content |-> p.post_content,
     tone |-> p.tone, audience |-> p.audience, length |-> p.length,
     series_id |-> p.series_id, series_order |-> p.series_order,
     created_at |-> p.created_at]

\* The dict a read method returns for a point (similarity_score is None,
\* here -1, for the scroll-based methods, which do not set the key).
Post(st, i, score) ==
    [id |-> i, document |-> st[i].document, metadata |-> Metadata(st[i]),
     similarity_score |-> score]

\* A user filter that lets every point through.
UserFilterOff(st, user_id) == DOMAIN st

\* Filter(must=[user_id == u]).
UserFilter(st, user_id) == {i \in DOMAIN st : st[i].user_id = user_id}

\* A series filter without the user_id condition.
SeriesFilterAnyUser(st, user_id, series_id) ==
    {i \in DOMAIN st : st[i].series_id = series_id}

\* Filter(must=[user_id == u, series_id == s]).
SeriesFilter(st, user_id, series_id) ==
    {i \in DOMAIN st : st[i].user_id = user_id /\ st[i].series_id = series_id}

\* The point of S the vector search ranks first: the highest score, and the
\* lowest id among equal scores.
Best(st, S, query) ==
    CHOOSE i \in S : \A j \in S :
        \/ SimScore(query, st[i].document) > SimScore(query, st[j].document)
        \/ /\ SimScore(query, st[i].document) = SimScore(query, st[j].document)
           /\ i <= j

RECURSIVE Ranked(_, _, _)
Ranked(st, S, query) ==
    IF S = {} THEN <<>>
    ELSE <<Best(st, S, query)>> \o Ranked(st, S \ {Best(st, S, query)}, query)

\* A search that ranks the whole collection: the user_id filter is left out.
search_all_posts(st, user_id, query, n_results) ==
    LET ids == Take(Ranked(st, DOMAIN st, query), n_results)
    IN  [k \in 1..Len(ids) |-> Post(st, ids[k], SimScore(query, st[ids[k]].document))]

\* search_similar_posts: query_points filtered by user_id, top n_results.
search_similar_posts(st, user_id, query, n_results) ==
    LET ids == Take(Ranked(st, UserFilter(st, user_id), query), n_results)
    IN  [k \in 1..Len(ids) |-> Post(st, ids[k], SimScore(query, st[ids[k]].document))]

\* client.scroll: the matching points in id order, at most limit of them.
Scroll(st, S, limit) ==
    LET ids == Take(Ascending(S), limit)
    IN  [k \in 1..Len(ids) |-> Post(st, ids[k], -1)]

\* get_user_posts
get_user_posts(st, user_id, limit) == Scroll(st, UserFilter(st, user_id), limit)

\* get_user_topics: the truthy topics of a scroll with limit 1000.
get_user_topics(st, user_id) ==
    LET posts == Scroll(st, UserFilter(st, user_id), 1000)
    IN  [k \in 1..Len(posts) |-> posts[k].metadata.topic]

\* list.sort(key=series_order): stable, ascending.
RECURSIVE SortBySeriesOrder(_)
SortBySeriesOrder(posts) ==
    IF posts = <<>> THEN <<>>
    ELSE LET k == CHOOSE a \in DOMAIN posts : \A b \in DOMAIN posts :
                     \/ posts[a].metadata.series_order < posts[b].metadata.series_order
                     \/ /\ posts[a].metadata.series_order = posts[b].metadata.series_order
                        /\ a <= b
             rest == [j \in 1..(Len(posts) - 1) |-> IF j < k THEN posts[j] ELSE posts[j + 1]]
         IN  <<posts[k]>> \o SortBySeriesOrder(rest)

\* get_series_posts: scroll on user_id and series_id (limit 100), sorted.
get_series_posts(st, user_id, series_id) ==
    SortBySeriesOrder(Scroll(st, SeriesFilter(st, user_id, series_id), 100))

\* count_user_posts
count_user_posts(st, user_id) == Cardinality(UserFilter(st, user_id))

\* ---------------------------------------------------- utils/validators.py
\* What the validators read of a text: len(post), the number of non-empty
\* lines, the length of the first of them, whether the last one holds a
\* call-to-action indicator, whether a problematic pattern matches, the
\* number of ALL-CAPS words and the number of emoji runs.
TextInfo(post) ==
    IF post = "good"
    THEN [length |-> 600, content_lines |-> 5, first_line |-> 40, has_cta |-> TRUE,
          problematic |-> FALSE, caps_words |-> 0, emojis |-> 3]
    ELSE [length |-> 40, content_lines |-> 1, first_line |-> 40, has_cta |-> FALSE,
          problematic |-> FALSE, caps_words |-> 0, emojis |-> 0]

validate_length(post) ==
    /\ ~(TextInfo(post).length < min_post_length)
    /\ ~(TextInfo(post).length > max_post_length)

validate_structure(post) ==
    /\ ~(TextInfo(post).content_lines < 2)
    /\ ~(TextInfo(post).content_lines > 0 /\ TextInfo(post).first_line < 10)
    /\ TextInfo(post).has_cta

validate_linkedin_friendly(post) ==
    /\ ~TextInfo(post).problematic
    /\ ~(TextInfo(post).caps_words > 3)
    /\ ~(TextInfo(post).emojis > 10)

\* validate_all: the "is_valid" entry of the dict it returns.
validate_all(post) ==
    [is_valid |-> validate_length(post) /\ validate_structure(post)
                  /\ validate_linkedin_friendly(post)]

\* -------------------------------------------------- services/generator.py
\* [f(x) for x in s]
Map(s, F(_)) == [k \in 1..Len(s) |-> F(s[k])]

TopicEntry(post) ==
    [topic |-> post.metadata.topic, similarity_score |-> post.similarity_score,
     created_at |-> post.metadata.created_at]

\* The threshold test with a strict comparison.
StrictlyAboveThreshold(post) == post.similarity_score > similarity_threshold

AtOrAboveThreshold(post) == post.similarity_score >= similarity_threshold

\* _check_topic_from_results: (topic_exists, similar_topics).
_check_topic_from_results(similar_posts) ==
    IF similar_posts = <<>>
    THEN [topic_exists |-> FALSE, similar_topics |-> <<>>]
    ELSE LET similar_topics == Map(SelectSeq(similar_posts, AtOrAboveThreshold), TopicEntry)
         IN  [topic_exists |-> Len(similar_topics) > 0, similar_topics |-> similar_topics]

\* _get_topic_message: the message, as its template and the values it formats.
_get_topic_message(topic_exists, similar_topics, style_mode) ==
    IF ~topic_exists
    THEN [text |-> "This is a fresh topic for you!", topic |-> "", percent |-> 0]
    ELSE [text |-> IF style_mode = "similar"
                   THEN "I'll match your established style."
                   ELSE "I'll bring a fresh angle.",
          topic |-> similar_topics[1].topic,
          percent |-> similar_topics[1].similarity_score]

WritingExample(post) ==
    [topic |-> post.metadata.topic, content |-> post.metadata.post_content,
     tone |-> post.metadata.tone, similarity |-> post.similarity_score]

\* list(set(...)): the distinct elements of a sequence, each once.  Python
\* fixes no order for it; the order of first occurrence stands for it here.
RECURSIVE Distinct(_)
Distinct(s) ==
    IF s = <<>> THEN <<>>
    ELSE LET front == Distinct(SubSeq(s, 1, Len(s) - 1))
         IN  IF s[Len(s)] \in Range(front) THEN front ELSE Append(front, s[Len(s)])

PostTone(post) == post.metadata.tone

\* A style-matching context that keeps only the results at or above the
\* threshold.
build_similar_context_matching(similar_posts) ==
    IF similar_posts = <<>>
    THEN [writing_examples |-> <<>>, tone_patterns |-> <<>>]
    ELSE [writing_examples |-> Map(SelectSeq(similar_posts, AtOrAboveThreshold), WritingExample),
          tone_patterns |-> Distinct(Map(SelectSeq(similar_posts, AtOrAboveThreshold), PostTone))]

\* _build_similar_context
_build_similar_context(similar_posts) ==
    IF similar_posts = <<>>
    THEN [writing_examples |-> <<>>, tone_patterns |-> <<>>]
    ELSE [writing_examples |-> Map(similar_posts, WritingExample),
          tone_patterns |-> Distinct(Map(similar_posts, PostTone))]

\* The avoidance filter with a non-strict comparison.
NotBelowThreshold(post) == post.similarity_score >= similarity_threshold

\* if post["similarity_score"] > self.similarity_threshold
AboveThreshold(post) == post.similarity_score > similarity_threshold

TopicToAvoid(post) ==
    [topic |-> post.metadata.topic, similarity |-> post.similarity_score]

PatternToAvoid(post) ==
    [tone |-> post.metadata.tone, length |-> post.metadata.length,
     audience |-> post.metadata.audience]

\* _build_different_context
_build_different_context(similar_posts) ==
    IF similar_posts = <<>>
    THEN [topics_to_avoid |-> <<>>, patterns_to_avoid |-> <<>>]
    ELSE [topics_to_avoid |-> Map(SelectSeq(similar_posts, AboveThreshold), TopicToAvoid),
          patterns_to_avoid |-> Map(SelectSeq(similar_posts, AboveThreshold), PatternToAvoid)]

\* _format_series_facts: "AttributeError" when all_facts is a non-empty dict
\* (iterating it yields its keys, and a str has no items()), else the text.
_format_series_facts(all_facts) ==
    IF all_facts = "none" THEN "No previous facts available (this is the first post)."
    ELSE IF all_facts = "dict" THEN "AttributeError"
    ELSE "facts"

\* ------------------------------------------------ chains/linkedin_chain.py
\* A str the chain puts into a prompt: a fixed text, or the items it joins.
FixedText(text) == [text |-> text, items |-> <<>>]

Joined(items) == [text |-> "", items |-> items]

\* Writing examples joined without the test for an empty list.
format_writing_examples_unguarded(examples) ==
    Joined([k \in 1..Len(examples) |-> <<k, examples[k].topic, examples[k].content>>])

\* _format_writing_examples: "### Example {i} (Topic: {topic})\n{content}\n"
\* per example, or the fixed text when there is none.
_format_writing_examples(examples) ==
    IF examples = <<>>
    THEN FixedText("No past examples available. Create fresh content.")
    ELSE Joined([k \in 1..Len(examples) |-> <<k, examples[k].topic, examples[k].content>>])

\* ", ".join(tone_patterns) if tone_patterns else "None established"
format_tone_patterns(tone_patterns) ==
    IF tone_patterns = <<>> THEN FixedText("None established") ELSE Joined(tone_patterns)

\* _format_topics_to_avoid: "- {topic} (similarity: {similarity:.0%})" per topic.
_format_topics_to_avoid(topics) ==
    IF topics = <<>>
    THEN FixedText("No previous topics to avoid.")
    ELSE Joined([k \in 1..Len(topics) |-> <<topics[k].topic, topics[k].similarity>>])

\* A de-duplication key that takes the audience in.
PatternKeyWithAudience(p) == p.tone \o "-" \o p.length \o "-" \o p.audience

\* key = f"{p.get('tone')}-{p.get('length')}"
PatternKey(p) == p.tone \o "-" \o p.length

\* The loop of _format_patterns_to_avoid: "- Tone: {tone}, Length: {length}"
\* for each pattern whose key no earlier pattern has.
RECURSIVE UniquePatterns(_)
UniquePatterns(patterns) ==
    IF patterns = <<>> THEN <<>>
    ELSE LET front == UniquePatterns(SubSeq(patterns, 1, Len(patterns) - 1))
             p == patterns[Len(patterns)]
         IN  IF \E j \in 1..(Len(patterns) - 1) : PatternKey(patterns[j]) = PatternKey(p)
             THEN front
             ELSE Append(front, <<p.tone, p.length>>)

\* _format_patterns_to_avoid
_format_patterns_to_avoid(patterns) ==
    IF patterns = <<>>
    THEN FixedText("No specific patterns to avoid.")
    ELSE Joined(UniquePatterns(patterns))

\* generate_similar_post: the context variables of the prompt it invokes.
generate_similar_post(writing_examples, tone_patterns) ==
    [writing_examples |-> _format_writing_examples(writing_examples),
     tone_patterns |-> format_tone_patterns(tone_patterns)]

\* generate_different_post: the context variables of the prompt it invokes.
generate_different_post(topics_to_avoid, patterns_to_avoid) ==
    [topics_to_avoid |-> _format_topics_to_avoid(topics_to_avoid),
     patterns_to_avoid |-> _format_patterns_to_avoid(patterns_to_avoid)]

\* The required parameters of LinkedInChain.extract_facts, after self.
extract_facts_params == <<"post_content", "topic">>

\* Python binds a call's positional arguments to the required parameters
\* and raises TypeError when their numbers differ.
Binds(args, params) == Len(args) = Len(params)

\* What extract_facts returns for the text the LLM produced: json.loads of
\* it, or the dict of four empty lists when it is not JSON.
extract_facts(result) ==
    IF result = "malformed" THEN "dict"
    ELSE IF result = "json_list" THEN "list"
    ELSE "dict"

\* Texts the fact extraction prompt can come back with.
FactTexts == {"malformed", "json_dict", "json_list"}

\* --------------------------------------------------------------- requests
PostRequest ==
    [user_id : Users, topic : Topics, tone : ReqTones, audience : ReqAudiences,
     length : ReqLengths, style_mode : StyleModes, is_series : BOOLEAN,
     series_id : {None} \cup ClientSids \cup (1..MaxReqs)]

NoRequest ==
    [user_id |-> "", topic |-> "", tone |-> "", audience |-> "", length |-> "",
     style_mode |-> "", is_series |-> FALSE, series_id |-> None]

NoMessage == [text |-> "", topic |-> "", percent |-> 0]

NoContext ==
    [writing_examples |-> <<>>, tone_patterns |-> <<>>, topics_to_avoid |-> <<>>,
     patterns_to_avoid |-> <<>>, series_facts |-> "", post_summaries |-> <<>>]

\* The locals of generate_post at its entry (lines 34-38).
EntryLocals ==
    [series_id |-> None, series_order |-> None, topic_exists |-> FALSE,
     similar_topics |-> <<>>, topic_message |-> NoMessage, similar_posts |-> <<>>,
     series_posts |-> <<>>, context |-> NoContext, awaiting |-> ""]

NoResponse ==
    [status |-> 0, detail |-> "", post |-> "", topic_exists |-> FALSE,
     similar_topics |-> <<>>, message |-> NoMessage, style_mode |-> "",
     series_id |-> None, series_order |-> None]

\* A completed call: the operation, its arguments, what it returned and the
\* point ids it upserted.
Call(op, args, result, wrote) ==
    [op |-> op, args |-> args, result |-> result, wrote |-> wrote]

NoCall == Call("none", NoRequest, NoResponse, {})

\* HTTPException(status_code=500, detail=f"Generation failed: {str(e)}")
Failed(e) == [NoResponse EXCEPT !.status = 500, !.detail = e]

\* The series ids a client can name: none, one of its own invention, or one
\* a stored post carries.
KnownSeriesIds == {None} \cup ClientSids \cup {store[i].series_id : i \in DOMAIN store}

\* A series id generator that returns the same value on every call.
ReusedSeriesId == Min(1..MaxReqs)

\* uuid.uuid4() for a new series: a value it has not returned before.
FreshSeriesId == Min((1..MaxReqs) \ minted)

\* Point ids drawn without regard to the points stored.
AnyPostIds(st) == PostIds

\* uuid.uuid4() for a new point: any value no point carries.
FreshPostIds(st) == PostIds \ DOMAIN st

Init ==
    /\ store = <<>>
    /\ clock = 1
    /\ minted = {}
    /\ pc = [r \in Reqs |-> "idle"]
    /\ req = [r \in Reqs |-> NoRequest]
    /\ loc = [r \in Reqs |-> EntryLocals]
    /\ last = NoCall
    /\ fnIn = <<>>
    /\ fnOut = [fn |-> "none", out |-> <<>>]

\* ------------------------------------------- generator.py: generate_post
\* The branch of generate_post a request takes (lines 40, 42, 69, 93).
Path(rq) ==
    IF rq.is_series
    THEN (IF rq.series_id # None THEN "continue" ELSE "start")
    ELSE "standalone"

\* What can fail in the first stretch of a branch: the continuation only
\* scrolls the store, the others embed the query and search the store.
EntryFaults(path) ==
    IF path = "continue" THEN {"none", "StorageUnavailable"}
    ELSE {"none", "StorageUnavailable", "EmbeddingFailure"}

\* Lines 42-49: the locals after get_series_posts, up to the extract_facts call.
ContinueLocals(rq) ==
    LET series_posts == get_series_posts(store, rq.user_id, rq.series_id)
    IN  [EntryLocals EXCEPT
            !.series_id = rq.series_id,
            !.series_posts = series_posts,
            !.series_order = Len(series_posts) + 1,
            !.awaiting = "extract_facts"]

\* A start branch that sets series_id and leaves series_order unset.
StartLocalsUnordered(rq) ==
    [EntryLocals EXCEPT
        !.series_id = FreshSeriesId,
        !.similar_posts = search_similar_posts(store, rq.user_id, rq.topic,
                                               max_similar_posts_to_retrieve),
        !.awaiting = "generate_similar_post"]

\* A start branch that numbers the post by the user's post count.
StartLocalsCounting(rq) ==
    [EntryLocals EXCEPT
        !.series_id = FreshSeriesId,
        !.series_order = count_user_posts(store, rq.user_id) + 1,
        !.similar_posts = search_similar_posts(store, rq.user_id, rq.topic,
                                               max_similar_posts_to_retrieve),
        !.awaiting = "generate_similar_post"]

\* A start branch that runs the novelty check on its hits.
StartLocalsChecked(rq) ==
    LET similar_posts == search_similar_posts(store, rq.user_id, rq.topic,
                                              max_similar_posts_to_retrieve)
        checked == _check_topic_from_results(similar_posts)
    IN  [EntryLocals EXCEPT
            !.series_id = FreshSeriesId,
            !.series_order = 1,
            !.similar_posts = similar_posts,
            !.topic_exists = checked.topic_exists,
            !.similar_topics = checked.similar_topics,
            !.awaiting = "generate_similar_post"]

\* Lines 69-92: the locals up to the generate_similar_post call.
StartLocals(rq) ==
    LET similar_posts == search_similar_posts(store, rq.user_id, rq.topic,
                                              max_similar_posts_to_retrieve)
        memory_context == _build_similar_context(similar_posts)
    IN  [EntryLocals EXCEPT
            !.series_id = FreshSeriesId,
            !.series_order = 1,
            !.similar_posts = similar_posts,
            !.context = [NoContext EXCEPT
                            !.writing_examples = memory_context.writing_examples,
                            !.tone_patterns = memory_context.tone_patterns],
            !.topic_message = [NoMessage EXCEPT !.text = "Started new series (Post #1)."],
            !.awaiting = "generate_similar_post"]

\* A standalone branch that takes over the series_id of the request.
StandaloneLocalsInSeries(rq) ==
    [EntryLocals EXCEPT
        !.series_id = rq.series_id,
        !.series_order = IF rq.series_id = None THEN None ELSE 1,
        !.similar_posts = search_similar_posts(store, rq.user_id, rq.topic,
                                               max_similar_posts_to_retrieve),
        !.awaiting = IF rq.style_mode = "similar"
                     THEN "generate_similar_post"
                     ELSE "generate_different_post"]

\* Lines 93-129: the locals up to the generate_*_post call.
StandaloneLocals(rq) ==
    LET similar_posts == search_similar_posts(store, rq.user_id, rq.topic,
                                              max_similar_posts_to_retrieve)
        checked == _check_topic_from_results(similar_posts)
        memory_context == _build_similar_context(similar_posts)
        avoidance_context == _build_different_context(similar_posts)
    IN  [EntryLocals EXCEPT
            !.similar_posts = similar_posts,
            !.topic_exists = checked.topic_exists,
            !.similar_topics = checked.similar_topics,
            !.topic_message = _get_topic_message(checked.topic_exists,
                                                 checked.similar_topics, rq.style_mode),
            !.context = IF rq.style_mode = "similar"
                        THEN [NoContext EXCEPT
                                !.writing_examples = memory_context.writing_examples,
                                !.tone_patterns = memory_context.tone_patterns]
                        ELSE [NoContext EXCEPT
                                !.topics_to_avoid = avoidance_context.topics_to_avoid,
                                !.patterns_to_avoid = avoidance_context.patterns_to_avoid],
            !.awaiting = IF rq.style_mode = "similar"
                         THEN "generate_similar_post"
                         ELSE "generate_different_post"]

\* An exception that leaves a point of the failed request behind.
RaiseAfterWrite(r, rq, e) ==
    /\ pc' = [pc EXCEPT ![r] = "error"]
    /\ req' = [req EXCEPT ![r] = NoRequest]
    /\ loc' = [loc EXCEPT ![r] = EntryLocals]
    /\ last' = Call("generate_post", rq, Failed(e), {})
    /\ store' = add_post(store, Min(FreshPostIds(store)), rq.user_id, rq.topic, "",
                         rq.tone, rq.audience, rq.length, None, None, clock)
    /\ UNCHANGED clock

\* The request ends with an exception: post.py answers 500 and the frame of
\* generate_post is gone.
Raise(r, rq, e) ==
    /\ pc' = [pc EXCEPT ![r] = "error"]
    /\ req' = [req EXCEPT ![r] = NoRequest]
    /\ loc' = [loc EXCEPT ![r] = EntryLocals]
    /\ last' = Call("generate_post", rq, Failed(e), {})
    /\ UNCHANGED <<store, clock>>

\* The request reaches an awaited LLM call with locals l.
Await(r, rq, l) ==
    /\ pc' = [pc EXCEPT ![r] = "await"]
    /\ req' = [req EXCEPT ![r] = rq]
    /\ loc' = [loc EXCEPT ![r] = l]
    /\ UNCHANGED <<store, clock, last>>

\* POST /generate: generate_post from its entry to its first awaited LLM
\* call, or to the exception that ends it.
generate_post(r, rq, fault) ==
    /\ pc[r] = "idle"
    /\ IF r = 1 THEN TRUE ELSE pc[r - 1] # "idle"
    /\ rq.series_id \in KnownSeriesIds
    /\ fault \in EntryFaults(Path(rq))
    /\ IF fault # "none"
       THEN Raise(r, rq, fault) /\ UNCHANGED minted
       ELSE IF Path(rq) = "continue"
       THEN /\ IF Binds(<<ContinueLocals(rq).series_posts>>, extract_facts_params)
               THEN Await(r, rq, ContinueLocals(rq))
               ELSE Raise(r, rq, "TypeError")
            /\ UNCHANGED minted
       ELSE IF Path(rq) = "start"
       THEN Await(r, rq, StartLocals(rq)) /\ minted' = minted \cup {FreshSeriesId}
       ELSE Await(r, rq, StandaloneLocals(rq)) /\ UNCHANGED minted
    /\ UNCHANGED <<fnIn, fnOut>>

\* "Post {series_order}: {topic}" for a prior post.
Summary(post) == <<post.metadata.series_order, post.metadata.topic>>

\* A response whose novelty verdict is taken anew from the store when the
\* response is built.
ResponseRechecked(rq, l, generated_post) ==
    [status |-> 200, detail |-> "", post |-> generated_post,
     topic_exists |-> _check_topic_from_results(
                          search_similar_posts(store, rq.user_id, rq.topic,
                                               max_similar_posts_to_retrieve)).topic_exists,
     similar_topics |-> l.similar_topics,
     message |-> l.topic_message, style_mode |-> rq.style_mode,
     series_id |-> l.series_id, series_order |-> l.series_order]

\* A response that echoes the series_id of the request.
ResponseRequestSeries(rq, l, generated_post) ==
    [status |-> 200, detail |-> "", post |-> generated_post,
     topic_exists |-> l.topic_exists, similar_topics |-> l.similar_topics,
     message |-> l.topic_message, style_mode |-> rq.style_mode,
     series_id |-> rq.series_id, series_order |-> l.series_order]

\* Lines 148-170: the PostResponse.
Response(rq, l, generated_post) ==
    [status |-> 200, detail |-> "", post |-> generated_post,
     topic_exists |-> l.topic_exists, similar_topics |-> l.similar_topics,
     message |-> l.topic_message, style_mode |-> rq.style_mode,
     series_id |-> l.series_id, series_order |-> l.series_order]

\* What an awaited LLM call can come back with.
LLMResults(awaiting) ==
    IF awaiting = "extract_facts" THEN FactTexts \cup {"GenerationFailure"}
    ELSE Texts \cup {"GenerationFailure"}

\* What can fail in add_post: the embedding of the document, the upsert.
SaveFaults == {"none", "EmbeddingFailure", "StorageUnavailable"}

\* Lines 50-67: from the return of extract_facts to the generate_series_post call.
SeriesLocals(l, all_facts) ==
    [l EXCEPT
        !.context = [NoContext EXCEPT
                        !.series_facts = _format_series_facts(all_facts),
                        !.post_summaries = Map(l.series_posts, Summary)],
        !.topic_message = [NoMessage EXCEPT !.text = "Continuing series."],
        !.awaiting = "generate_series_post"]

\* A save that calls add_post a second time for the same post.
SaveTwice(r, generated_post, post_id) ==
    LET once == add_post(store, post_id, req[r].user_id, req[r].topic, generated_post,
                         req[r].tone, req[r].audience, req[r].length,
                         loc[r].series_id, loc[r].series_order, clock)
        again == IF FreshPostIds(once) = {} THEN post_id ELSE Min(FreshPostIds(once))
    IN  /\ store' = add_post(once, again, req[r].user_id, req[r].topic, generated_post,
                             req[r].tone, req[r].audience, req[r].length,
                             loc[r].series_id, loc[r].series_order, clock)
        /\ clock' = clock + 1
        /\ pc' = [pc EXCEPT ![r] = "done"]
        /\ req' = [req EXCEPT ![r] = NoRequest]
        /\ loc' = [loc EXCEPT ![r] = EntryLocals]
        /\ last' = Call("generate_post", req[r], Response(req[r], loc[r], generated_post),
                        {post_id, again})

\* Lines 131-170: validate_all, whose result is not read, add_post with the
\* post_id uuid4 returned, and the response.
Save(r, generated_post, post_id) ==
    /\ store' = add_post(store, post_id, req[r].user_id, req[r].topic, generated_post,
                         req[r].tone, req[r].audience, req[r].length,
                         loc[r].series_id, loc[r].series_order, clock)
    /\ clock' = clock + 1
    /\ pc' = [pc EXCEPT ![r] = "done"]
    /\ req' = [req EXCEPT ![r] = NoRequest]
    /\ loc' = [loc EXCEPT ![r] = EntryLocals]
    /\ last' = Call("generate_post", req[r], Response(req[r], loc[r], generated_post),
                    {post_id})

\* An awaited LLM call returns and generate_post runs on: after
\* extract_facts to the generate_series_post call, after a generate_*_post
\* call to the response.
llm_return(r, result, fault, post_id) ==
    /\ pc[r] = "await"
    /\ result \in LLMResults(loc[r].awaiting)
    /\ fault \in SaveFaults
    /\ post_id \in FreshPostIds(store)
    /\ IF result = "GenerationFailure"
       THEN /\ fault = "none" /\ post_id = Min(FreshPostIds(store))
            /\ Raise(r, req[r], result)
       ELSE IF loc[r].awaiting = "extract_facts"
       THEN /\ fault = "none" /\ post_id = Min(FreshPostIds(store))
            /\ IF _format_series_facts(extract_facts(result)) = "AttributeError"
               THEN Raise(r, req[r], "AttributeError")
               ELSE Await(r, req[r], SeriesLocals(loc[r], extract_facts(result)))
       ELSE IF fault # "none"
       THEN /\ post_id = Min(FreshPostIds(store))
            /\ Raise(r, req[r], fault)
       ELSE Save(r, result, post_id)
    /\ UNCHANGED <<minted, fnIn, fnOut>>

\* ------------------------------------------------------ read-only calls
\* A read that stamps the points of the user it read for.
ReadTouching(op, args, result) ==
    /\ last' = Call(op, args, result, {})
    /\ store' = [i \in DOMAIN store |->
                    IF store[i].user_id = args.user_id
                    THEN [store[i] EXCEPT !.created_at = clock]
                    ELSE store[i]]
    /\ UNCHANGED <<clock, minted, pc, req, loc, fnIn, fnOut>>

\* A read-only call completes with a result.
Read(op, args, result) ==
    /\ last' = Call(op, args, result, {})
    /\ UNCHANGED <<store, clock, minted, pc, req, loc, fnIn, fnOut>>

\* VectorStore.search_similar_posts called for a user and a query.
SearchSimilarPosts(u, q) ==
    Read("search_similar_posts", [user_id |-> u, query |-> q],
         [posts |-> search_similar_posts(store, u, q, max_similar_posts_to_retrieve)])

\* VectorStore.get_user_topics called for a user.
GetUserTopics(u) ==
    Read("get_user_topics", [user_id |-> u], [topics |-> get_user_topics(store, u)])

\* VectorStore.get_series_posts called for a user and a series.
GetSeriesPosts(u, sid) ==
    /\ sid \in KnownSeriesIds \ {None}
    /\ Read("get_series_posts", [user_id |-> u, series_id |-> sid],
            [posts |-> get_series_posts(store, u, sid)])

PostHistoryItem(post) ==
    [post_id |-> post.id, topic |-> post.metadata.topic,
     post_preview |-> post.metadata.post_content, tone |-> post.metadata.tone,
     audience |-> post.metadata.audience, created_at |-> post.metadata.created_at]

\* GET /history/{user_id}: get_user_posts and count_user_posts.
get_user_history(u, limit) ==
    Read("get_user_history", [user_id |-> u, limit |-> limit],
         [total_posts |-> count_user_posts(store, u),
          posts |-> Map(get_user_posts(store, u, limit), PostHistoryItem)])

\* A grouping that takes every post, with or without a series_id.
InAnySeries(post) == TRUE

\* The posts of all_posts with a series_id, in scroll order.
InSeries(post) == post.metadata.series_id # None

PostSeriesId(post) == post.metadata.series_id

\* The summary get_user_series builds for the series sid of all_posts.
SeriesSummary(all_posts, sid) ==
    LET Member(post) == post.metadata.series_id = sid
        posts == SortBySeriesOrder(SelectSeq(all_posts, Member))
    IN  [series_id |-> sid, total_posts |-> Len(posts),
         first_topic |-> posts[1].metadata.topic,
         last_topic |-> posts[Len(posts)].metadata.topic,
         created_at |-> posts[1].metadata.created_at]

\* GET /series/{user_id}: get_user_posts(limit=1000) grouped by series_id,
\* the groups in the order their first post comes in the scroll.
get_user_series(u) ==
    LET all_posts == get_user_posts(store, u, 1000)
        sids == Distinct(Map(SelectSeq(all_posts, InSeries), PostSeriesId))
    IN  Read("get_user_series", [user_id |-> u],
             [total_series |-> Len(sids),
              series |-> [k \in 1..Len(sids) |-> SeriesSummary(all_posts, sids[k])]])

Next ==
    \/ \E r \in Reqs, rq \in PostRequest, fault \in SaveFaults : generate_post(r, rq, fault)
    \/ \E r \in Reqs, result \in Texts \cup FactTexts \cup {"GenerationFailure"},
          fault \in SaveFaults, post_id \in PostIds : llm_return(r, result, fault, post_id)
    \/ \E u \in Users, q \in Topics : SearchSimilarPosts(u, q)
    \/ \E u \in Users : GetUserTopics(u)
    \/ \E u \in Users, sid \in 1..9 : GetSeriesPosts(u, sid)
    \/ \E u \in Users, limit \in Limits : get_user_history(u, limit)
    \/ \E u \in Users : get_user_series(u)

Spec == Init /\ [][Next]_vars

\* ------------------------------------------- the pure context functions
\* Stored posts a retrieval can return, and the scores it can give them.
FnPayloads ==
    { Payload("u1", "A", "good", "professional", "general", "medium", None, None, 1),
      Payload("u1", "A", "short", "professional", "engineers", "medium", None, None, 2),
      Payload("u1", "B", "good", "casual", "general", "short", 1, 1, 3),
      Payload("u1", "B", "short", "professional", "general", "short", None, None, 4) }

FnScores == {70, 75, 80}

FnHits ==
    { [id |-> p.created_at, document |-> p.document, metadata |-> Metadata(p),
       similarity_score |-> sc] : p \in FnPayloads, sc \in FnScores }

\* Retrieval returns its hits by descending similarity.
Descending(s) ==
    \A k \in 1..(Len(s) - 1) : s[k].similarity_score >= s[k + 1].similarity_score

\* Retrieval returns a point at most once.
DistinctPoints(s) == \A a \in DOMAIN s : \A b \in DOMAIN s : a # b => s[a].id # s[b].id

FnInputs ==
    { s \in UNION { [1..n -> FnHits] : n \in 0..MaxResults } :
        Descending(s) /\ DistinctPoints(s) }

NoOutput == [fn |-> "none", out |-> <<>>]

InitFn ==
    /\ store = <<>>
    /\ clock = 1
    /\ minted = {}
    /\ pc = [r \in Reqs |-> "idle"]
    /\ req = [r \in Reqs |-> NoRequest]
    /\ loc = [r \in Reqs |-> EntryLocals]
    /\ last = NoCall
    /\ fnIn \in FnInputs
    /\ fnOut = NoOutput

\* A pure function of generator.py is applied to the retrieval list.
Apply(fn, out) ==
    /\ fnOut' = [fn |-> fn, out |-> out]
    /\ UNCHANGED <<store, clock, minted, pc, req, loc, last, fnIn>>

CheckTopicFromResults == Apply("_check_topic_from_results", _check_topic_from_results(fnIn))

BuildSimilarContext == Apply("_build_similar_context", _build_similar_context(fnIn))

BuildDifferentContext == Apply("_build_different_context", _build_different_context(fnIn))

\* Lines 49 and 61: what extract_facts returns for the text the fact
\* extraction prompt came back with is handed to _format_series_facts.
FormatSeriesFacts ==
    \E text \in FactTexts :
        Apply("_format_series_facts",
              [text |-> text, all_facts |-> extract_facts(text),
               series_facts |-> _format_series_facts(extract_facts(text))])

\* Lines 105-116: the style-matching context of the retrieval list is handed
\* to generate_similar_post.
GenerateSimilarPost ==
    Apply("generate_similar_post",
          generate_similar_post(_build_similar_context(fnIn).writing_examples,
                                _build_similar_context(fnIn).tone_patterns))

\* Lines 118-129: the avoidance context of the retrieval list is handed to
\* generate_different_post.
GenerateDifferentPost ==
    Apply("generate_different_post",
          generate_different_post(_build_different_context(fnIn).topics_to_avoid,
                                  _build_different_context(fnIn).patterns_to_avoid))

NextFn ==
    \/ CheckTopicFromResults
    \/ BuildSimilarContext
    \/ BuildDifferentContext
    \/ FormatSeriesFacts
    \/ GenerateSimilarPost
    \/ GenerateDifferentPost

SpecFn == InitFn /\ [][NextFn]_vars

\* ================================================================ claims
ExternalFaults == {"StorageUnavailable", "EmbeddingFailure", "GenerationFailure"}

\* The latest call is a /generate request that returned a response.
Responded == last.op = "generate_post" /\ last.result.status = 200

\* The latest call is a /generate request that ended in an exception.
Errored == last.op = "generate_post" /\ last.result.status = 500

InFlight == {r \in Reqs : pc[r] = "await"}

\* C1: a similarity search scoped to a user returns only records of that
\* user, in the store method as called directly and as called by a request,
\* whatever the other users' records score against the query.
C1_SearchScopedToUser ==
    /\ last.op = "search_similar_posts" =>
          \A k \in DOMAIN last.result.posts :
              /\ last.result.posts[k].metadata.user_id = last.args.user_id
              /\ last.result.posts[k].id \in DOMAIN store
              /\ store[last.result.posts[k].id].user_id = last.args.user_id
    /\ \A r \in InFlight : \A k \in DOMAIN loc[r].similar_posts :
          loc[r].similar_posts[k].metadata.user_id = req[r].user_id

\* C1 witness: a search for a user returned that user's records while
\* another user's record scores higher against the query than all of them.
C1_Witness ==
    /\ last.op = "search_similar_posts"
    /\ last.result.posts # <<>>
    /\ \E j \in DOMAIN store :
          /\ store[j].user_id # last.args.user_id
          /\ \A k \in DOMAIN last.result.posts :
                SimScore(last.args.query, store[j].document)
                    > last.result.posts[k].similarity_score

\* The series_order values stored in the series (user_id, series_id).
SeriesOrders(user_id, series_id) ==
    {store[i].series_order : i \in SeriesFilter(store, user_id, series_id)}

\* C2 (as claimed): with no other request in flight, a continuation of a
\* series that has posts fails only for an external fault, and when it
\* completes the series holds the orders 1..n, the new post carrying n.
C2_SequentialContinuationsSucceed ==
    ( /\ last.op = "generate_post"
      /\ Path(last.args) = "continue"
      /\ InFlight = {}
      /\ SeriesFilter(store, last.args.user_id, last.args.series_id) # {}
      /\ last.result.detail \notin ExternalFaults )
    => /\ last.result.status = 200
       /\ SeriesOrders(last.args.user_id, last.args.series_id)
            = 1..Cardinality(SeriesFilter(store, last.args.user_id, last.args.series_id))
       /\ last.result.series_order
            = Cardinality(SeriesFilter(store, last.args.user_id, last.args.series_id))

\* C3 (as claimed): a continuation request that has read its series is
\* suspended at an awaited call before it writes, holding count + 1, so that
\* a second continuation can read the same count: a continuation leaves its
\* first stretch in error only when the store read failed.
C3_ContinuationAwaitsBeforeWrite ==
    [][\A r \in Reqs :
          (pc[r] = "idle" /\ pc'[r] = "error" /\ last'.op = "generate_post"
              /\ Path(last'.args) = "continue")
          => last'.result.detail = "StorageUnavailable"]_vars

\* C4 (as claimed): every stored post holds a text that validate_all
\* reports as valid.
C4_StoredOnlyIfValid ==
    \A i \in DOMAIN store : validate_all(store[i].post_content).is_valid

\* C5: a request that returns a response has upserted exactly one point, of
\* its user, in the step that follows its generation call; that step adds 1
\* to the user's count and leaves every other point as it was; no other
\* step of a request writes.
C5_ExactlyOneWritePerResponse ==
    [][/\ \A r \in Reqs :
            (pc[r] # "done" /\ pc'[r] = "done") =>
                /\ pc[r] = "await"
                /\ loc[r].awaiting \in {"generate_similar_post", "generate_different_post",
                                        "generate_series_post"}
                /\ last'.op = "generate_post" /\ last'.result.status = 200
                /\ Cardinality(last'.wrote) = 1
                /\ last'.wrote = DOMAIN store' \ DOMAIN store
                /\ \A i \in last'.wrote : store'[i].user_id = req[r].user_id
                /\ count_user_posts(store', req[r].user_id)
                     = count_user_posts(store, req[r].user_id) + 1
                /\ \A u \in Users \ {req[r].user_id} :
                     UserFilter(store', u) = UserFilter(store, u)
                /\ \A i \in DOMAIN store : store'[i] = store[i]
       /\ (\A r \in Reqs : ~(pc[r] # "done" /\ pc'[r] = "done")) => store' = store
       /\ (last' # last /\ last'.op = "generate_post" /\ last'.result.status = 200)
             => \E r \in Reqs : pc[r] = "await" /\ pc'[r] = "done"]_vars

\* C5 witness: a user without posts got a response and now has one post,
\* while another user has posts too.
C5_Witness ==
    /\ Responded
    /\ count_user_posts(store, last.args.user_id) = 1
    /\ \E i \in DOMAIN store : store[i].user_id # last.args.user_id

\* C6: a request that fails ends with status 500 in the step in which the
\* failure occurs, that step writes nothing, and the request stays failed
\* (no retry).
C6_FailureLeavesStoreUntouched ==
    [][\A r \in Reqs :
          /\ (pc[r] # "error" /\ pc'[r] = "error") =>
                /\ store' = store
                /\ last'.op = "generate_post"
                /\ last'.result.status = 500
                /\ last'.wrote = {}
          /\ pc[r] = "error" => pc'[r] = "error"]_vars

\* C6 witness: a generation call failed while the store held a post.
C6_Witness ==
    /\ Errored
    /\ last.result.detail = "GenerationFailure"
    /\ store # <<>>

\* The point a read returned equals what the latest request wrote.
ReadsBack(post) ==
    /\ post.id \in last.wrote
    /\ post.id # None
    /\ post.metadata.created_at # None
    /\ post.metadata.user_id = last.args.user_id
    /\ post.metadata.topic = last.args.topic
    /\ post.metadata.post_content = last.result.post
    /\ post.metadata.tone = last.args.tone
    /\ post.metadata.audience = last.args.audience
    /\ post.metadata.length = last.args.length
    /\ post.metadata.series_id = last.result.series_id
    /\ post.metadata.series_order = last.result.series_order

\* C7 (as claimed): right after a request's add_post, get_user_posts for the
\* user returns the written record for every limit.
C7_ReadBackAnyLimit ==
    Responded =>
        \A limit \in Limits :
            \E k \in DOMAIN get_user_posts(store, last.args.user_id, limit) :
                ReadsBack(get_user_posts(store, last.args.user_id, limit)[k])

\* C7 (amended): right after a request's add_post, get_user_posts for the
\* user returns the written record for every limit that is at least the
\* number of posts the user then has.
C7_ReadBackWithinLimit ==
    Responded =>
        \A limit \in {l \in Limits : l >= count_user_posts(store, last.args.user_id)} :
            \E k \in DOMAIN get_user_posts(store, last.args.user_id, limit) :
                ReadsBack(get_user_posts(store, last.args.user_id, limit)[k])

\* C7 witness: a user who already had a post got a response, and the new
\* point is not the first of the user's points in a scroll.
C7_Witness ==
    /\ Responded
    /\ count_user_posts(store, last.args.user_id) = 2
    /\ get_user_posts(store, last.args.user_id, 1)[1].id \notin last.wrote

\* C8: every step keeps every stored point, with its id and payload, and a
\* step that adds a point uses an id no stored point has.
C8_AppendOnly ==
    [][/\ \A i \in DOMAIN store : i \in DOMAIN store' /\ store'[i] = store[i]
       /\ store' # store =>
             /\ last'.wrote # {}
             /\ last'.wrote \cap DOMAIN store = {}
             /\ DOMAIN store' = DOMAIN store \cup last'.wrote]_vars

\* C8 witness: add_post has added a point to a store that held one.
C8_Witness == Responded /\ Cardinality(DOMAIN store) >= 2

ReadOps ==
    {"search_similar_posts", "get_user_topics", "get_series_posts",
     "get_user_history", "get_user_series"}

\* C9: a step that completes a read-only call leaves the store as it was,
\* and a step that changes the store is the add_post of a request.
C9_OnlyAddPostMutates ==
    [][/\ (last' # last /\ last'.op \in ReadOps) => store' = store
       /\ store' # store =>
             /\ last'.op = "generate_post"
             /\ \E r \in Reqs : pc[r] = "await" /\ pc'[r] = "done"]_vars

\* C9 witness: a read-only call returned posts of a store that holds some.
C9_Witness ==
    /\ last.op \in ReadOps
    /\ store # <<>>
    /\ last.op = "get_user_history" => last.result.total_posts > 0

\* The positions of fnIn whose score is at or above the threshold.
Matching == {k \in DOMAIN fnIn : fnIn[k].similarity_score >= similarity_threshold}

\* C10: _check_topic_from_results reports topic_exists exactly when some
\* result scores at or above the threshold, and lists exactly those results,
\* in retrieval order, each with its topic, score and created_at.
C10_CheckTopicFromResults ==
    fnOut.fn = "_check_topic_from_results" =>
        /\ fnOut.out.topic_exists = (Matching # {})
        /\ Len(fnOut.out.similar_topics) = Cardinality(Matching)
        /\ \A k \in DOMAIN fnOut.out.similar_topics :
              LET src == Ascending(Matching)[k]
              IN  /\ fnOut.out.similar_topics[k].topic = fnIn[src].metadata.topic
                  /\ fnOut.out.similar_topics[k].similarity_score = fnIn[src].similarity_score
                  /\ fnOut.out.similar_topics[k].created_at = fnIn[src].metadata.created_at
        /\ fnIn = <<>> => fnOut.out = [topic_exists |-> FALSE, similar_topics |-> <<>>]

\* C10 witness: a list with a result exactly at the threshold after one
\* above it and before one below it was classified.
C10_Witness ==
    /\ fnOut.fn = "_check_topic_from_results"
    /\ Len(fnIn) = 3
    /\ fnIn[1].similarity_score > similarity_threshold
    /\ fnIn[2].similarity_score = similarity_threshold
    /\ fnIn[3].similarity_score < similarity_threshold
    /\ Len(fnOut.out.similar_topics) = 2

\* The positions of fnIn whose score is strictly above the threshold.
StrictlyAbove == {k \in DOMAIN fnIn : fnIn[k].similarity_score > similarity_threshold}

\* C11: _build_different_context lists, in topics_to_avoid and in
\* patterns_to_avoid, exactly the results whose score is strictly above the
\* threshold, in retrieval order, and so none whose score is at or below it.
C11_AvoidanceStrictlyAbove ==
    fnOut.fn = "_build_different_context" =>
        /\ Len(fnOut.out.topics_to_avoid) = Cardinality(StrictlyAbove)
        /\ Len(fnOut.out.patterns_to_avoid) = Cardinality(StrictlyAbove)
        /\ \A k \in 1..Cardinality(StrictlyAbove) :
              LET src == Ascending(StrictlyAbove)[k]
              IN  /\ fnOut.out.topics_to_avoid[k].topic = fnIn[src].metadata.topic
                  /\ fnOut.out.topics_to_avoid[k].similarity = fnIn[src].similarity_score
                  /\ fnOut.out.topics_to_avoid[k].similarity > similarity_threshold
                  /\ fnOut.out.patterns_to_avoid[k].tone = fnIn[src].metadata.tone
                  /\ fnOut.out.patterns_to_avoid[k].length = fnIn[src].metadata.length
                  /\ fnOut.out.patterns_to_avoid[k].audience = fnIn[src].metadata.audience

\* C11 witness: the avoidance context was built from a list holding a result
\* above the threshold, one exactly at it and one below it, and lists one.
C11_Witness ==
    /\ fnOut.fn = "_build_different_context"
    /\ Len(fnIn) = 3
    /\ fnIn[1].similarity_score > similarity_threshold
    /\ fnIn[2].similarity_score = similarity_threshold
    /\ fnIn[3].similarity_score < similarity_threshold
    /\ Len(fnOut.out.topics_to_avoid) = 1
    /\ Len(fnOut.out.patterns_to_avoid) = 1

\* The tones of the results in fnIn.
InputTones == {fnIn[k].metadata.tone : k \in DOMAIN fnIn}

\* C12: for a non-empty list _build_similar_context gives one writing
\* example per result, in retrieval order and whatever its score, with the
\* result's topic, content, tone and score, and tone_patterns holds each tone
\* of the results once and nothing else.
C12_SimilarContextKeepsAll ==
    (fnOut.fn = "_build_similar_context" /\ fnIn # <<>>) =>
        /\ Len(fnOut.out.writing_examples) = Len(fnIn)
        /\ \A k \in DOMAIN fnIn :
              /\ fnOut.out.writing_examples[k].topic = fnIn[k].metadata.topic
              /\ fnOut.out.writing_examples[k].content = fnIn[k].metadata.post_content
              /\ fnOut.out.writing_examples[k].tone = fnIn[k].metadata.tone
              /\ fnOut.out.writing_examples[k].similarity = fnIn[k].similarity_score
        /\ Range(fnOut.out.tone_patterns) = InputTones
        /\ Len(fnOut.out.tone_patterns) = Cardinality(InputTones)

\* C12 witness: the style-matching context was built from three results, one
\* of them below the threshold, two of them of the same tone.
C12_Witness ==
    /\ fnOut.fn = "_build_similar_context"
    /\ Len(fnIn) = 3
    /\ fnIn[3].similarity_score < similarity_threshold
    /\ Cardinality(InputTones) = 2
    /\ Len(fnOut.out.writing_examples) = 3
    /\ Len(fnOut.out.tone_patterns) = 2

\* The smaller of two numbers.
Least(a, b) == IF a < b THEN a ELSE b

\* C13: a request that starts a series (is_series, no series_id) takes a
\* series_id that uuid4 has not returned before and that no stored record of
\* any user carries, and series_order 1; it builds its context on the
\* style-matching path whatever its style_mode (a similarity search of its
\* user's posts, one writing example per hit, nothing to avoid, the
\* generate_similar_post call); and when it completes, the record it stores
\* and its response carry that series_id, which no other stored record
\* carries, and series_order 1.
C13_StartSeriesFresh ==
    [][\A r \in Reqs :
          /\ (pc[r] = "idle" /\ pc'[r] = "await" /\ Path(req'[r]) = "start") =>
                /\ loc'[r].series_order = 1
                /\ loc'[r].series_id # None
                /\ loc'[r].series_id \notin minted
                /\ \A i \in DOMAIN store : store[i].series_id # loc'[r].series_id
                /\ loc'[r].awaiting = "generate_similar_post"
                /\ Len(loc'[r].similar_posts)
                     = Least(max_similar_posts_to_retrieve,
                             count_user_posts(store, req'[r].user_id))
                /\ \A k \in DOMAIN loc'[r].similar_posts :
                      /\ loc'[r].similar_posts[k].metadata.user_id = req'[r].user_id
                      /\ loc'[r].context.writing_examples[k].content
                           = loc'[r].similar_posts[k].metadata.post_content
                /\ Len(loc'[r].context.writing_examples) = Len(loc'[r].similar_posts)
                /\ loc'[r].context.topics_to_avoid = <<>>
                /\ loc'[r].context.patterns_to_avoid = <<>>
          /\ (pc[r] = "await" /\ pc'[r] = "done" /\ Path(req[r]) = "start") =>
                /\ \A i \in DOMAIN store : store[i].series_id # loc[r].series_id
                /\ \A i \in last'.wrote :
                      /\ store'[i].series_id = loc[r].series_id
                      /\ store'[i].series_id # None
                      /\ store'[i].series_order = 1
                /\ last'.result.series_id = loc[r].series_id
                /\ last'.result.series_order = 1]_vars

\* C13 witness: a request with style_mode "different" started a series and
\* was answered while the store held the first post of another series and a
\* post of the same user.
C13_Witness ==
    /\ Responded
    /\ Path(last.args) = "start"
    /\ last.args.style_mode = "different"
    /\ last.result.series_order = 1
    /\ \E i \in DOMAIN store \ last.wrote :
          /\ store[i].series_id \notin {None, last.result.series_id}
          /\ store[i].user_id = last.args.user_id

\* C14 (as claimed): a continuation that names a series_id of which its user
\* has no post, and that meets no external fault, completes: it stores a
\* record with that series_id and series_order 1 and answers with them.
C14_ContinueUnknownSeries ==
    ( /\ last.op = "generate_post"
      /\ Path(last.args) = "continue"
      /\ SeriesFilter(store, last.args.user_id, last.args.series_id) \ last.wrote = {}
      /\ last.result.detail \notin ExternalFaults )
    => /\ last.result.status = 200
       /\ last.result.series_id = last.args.series_id
       /\ last.result.series_order = 1
       /\ \E i \in last.wrote :
             /\ store[i].series_id = last.args.series_id
             /\ store[i].series_order = 1

\* The request that request r makes or made in a step that takes it out of
\* "idle": kept in req when it is suspended, in last when it has failed.
Entered(r) == IF pc'[r] = "await" THEN req'[r] ELSE last'.args

\* C15 (as claimed): a continuation of a series with n >= 1 posts that meets
\* no storage fault reaches the one extract_facts call holding exactly those
\* n posts in ascending series_order and series_order n + 1; when that call
\* returns it goes on to generate_series_post with one summary per prior
\* post, in that order; and when it completes it stores and answers with
\* series_order n + 1.
C15_ContinuationExtractsOnce ==
    [][\A r \in Reqs :
          /\ ( /\ pc[r] = "idle" /\ pc'[r] # "idle"
               /\ Path(Entered(r)) = "continue"
               /\ SeriesFilter(store, Entered(r).user_id, Entered(r).series_id) # {}
               /\ ~(pc'[r] = "error" /\ last'.result.detail = "StorageUnavailable") )
             => /\ pc'[r] = "await"
                /\ loc'[r].awaiting = "extract_facts"
                /\ Len(loc'[r].series_posts)
                     = Cardinality(SeriesFilter(store, Entered(r).user_id, Entered(r).series_id))
                /\ {loc'[r].series_posts[k].id : k \in DOMAIN loc'[r].series_posts}
                     = SeriesFilter(store, Entered(r).user_id, Entered(r).series_id)
                /\ \A k \in 1..(Len(loc'[r].series_posts) - 1) :
                      loc'[r].series_posts[k].metadata.series_order
                        <= loc'[r].series_posts[k + 1].metadata.series_order
                /\ loc'[r].series_order = Len(loc'[r].series_posts) + 1
          /\ ( /\ pc[r] = "await" /\ loc[r].awaiting = "extract_facts"
               /\ pc'[r] = "await" )
             => /\ loc'[r].awaiting = "generate_series_post"
                /\ loc'[r].series_posts = loc[r].series_posts
                /\ Len(loc'[r].context.post_summaries) = Len(loc[r].series_posts)
                /\ \A k \in DOMAIN loc[r].series_posts :
                      loc'[r].context.post_summaries[k]
                        = <<loc[r].series_posts[k].metadata.series_order,
                            loc[r].series_posts[k].metadata.topic>>
          /\ ( /\ pc[r] = "await" /\ loc[r].awaiting = "generate_series_post"
               /\ pc'[r] = "done" )
             => /\ last'.result.series_order = Len(loc[r].series_posts) + 1
                /\ \A i \in last'.wrote :
                      store'[i].series_order = Len(loc[r].series_posts) + 1]_vars

\* C16 (as claimed): when the fact extraction prompt comes back with text
\* that is not JSON, what extract_facts substitutes is formatted into the
\* series prompt without an exception, so that the request goes on.
C16_MalformedFactsDegrade ==
    (fnOut.fn = "_format_series_facts" /\ fnOut.out.text = "malformed") =>
        /\ fnOut.out.series_facts # "AttributeError"
        /\ fnOut.out.series_facts
             \in {"No previous facts available (this is the first post).", "facts"}

\* The points user_id has stored under series_id.
OwnSeriesPoints(user_id, series_id) ==
    {i \in DOMAIN store : store[i].user_id = user_id /\ store[i].series_id = series_id}

\* C17: get_series_posts called for a user and a series returns only stored
\* records of that user and that series; and a continuation request reads,
\* at lines 45-46, only records of its own user and of the series it names,
\* takes series_order from their number, and leaves the store as it was in
\* that step, whoever else has posts under that series_id.
C17_SeriesScopedToUser ==
    [][/\ (last' # last /\ last'.op = "get_series_posts") =>
             \A k \in DOMAIN last'.result.posts :
                 /\ last'.result.posts[k].metadata.user_id = last'.args.user_id
                 /\ last'.result.posts[k].metadata.series_id = last'.args.series_id
                 /\ last'.result.posts[k].id
                      \in OwnSeriesPoints(last'.args.user_id, last'.args.series_id)
       /\ \A r \in Reqs :
             (pc[r] = "idle" /\ pc'[r] # "idle" /\ Path(Entered(r)) = "continue") =>
                 /\ \A k \in DOMAIN ContinueLocals(Entered(r)).series_posts :
                       /\ ContinueLocals(Entered(r)).series_posts[k].metadata.user_id
                            = Entered(r).user_id
                       /\ ContinueLocals(Entered(r)).series_posts[k].metadata.series_id
                            = Entered(r).series_id
                 /\ ContinueLocals(Entered(r)).series_order
                      = Cardinality(OwnSeriesPoints(Entered(r).user_id, Entered(r).series_id)) + 1
                 /\ store' = store]_vars

\* C17 witness: get_series_posts was called for a user with a series_id that
\* a post of another user carries, and returned nothing.
C17_Witness ==
    /\ last.op = "get_series_posts"
    /\ last.result.posts = <<>>
    /\ \E i \in DOMAIN store :
          /\ store[i].series_id = last.args.series_id
          /\ store[i].user_id # last.args.user_id

\* C18: a request with is_series = false, whatever series_id it carries,
\* mints no series id, reads no series and reaches only a generate_similar_post
\* or generate_different_post call (never extract_facts or
\* generate_series_post), holding no series_id and no series_order; the
\* record it stores and its response carry series_id None and series_order
\* None.
C18_StandaloneWritesNoSeries ==
    [][\A r \in Reqs :
          /\ (pc[r] = "idle" /\ pc'[r] # "idle" /\ ~Entered(r).is_series) =>
                /\ minted' = minted
                /\ pc'[r] = "await" =>
                      /\ loc'[r].series_id = None
                      /\ loc'[r].series_order = None
                      /\ loc'[r].series_posts = <<>>
                      /\ loc'[r].context.series_facts = ""
                      /\ loc'[r].context.post_summaries = <<>>
                      /\ loc'[r].awaiting
                           \in {"generate_similar_post", "generate_different_post"}
          /\ (pc[r] = "await" /\ ~req[r].is_series) =>
                /\ pc'[r] \in {"await", "done", "error"}
                /\ pc'[r] = "await" => loc'[r] = loc[r]
                /\ pc'[r] = "done" =>
                      /\ last'.wrote # {}
                      /\ \A i \in last'.wrote :
                            /\ store'[i].series_id = None
                            /\ store'[i].series_order = None
                      /\ last'.result.series_id = None
                      /\ last'.result.series_order = None]_vars

\* C18 witness: a request with is_series = false that carried a series_id
\* was answered, and the record it stored has no series_id.
C18_Witness ==
    /\ Responded
    /\ ~last.args.is_series
    /\ last.args.series_id # None
    /\ \E i \in last.wrote : store[i].series_id = None /\ store[i].series_order = None

\* C19 (as claimed): the history view of a user returns at most limit
\* summaries, each of a post of that user, ordered by created_at with the
\* newest first.
C19_HistoryNewestFirst ==
    last.op = "get_user_history" =>
        /\ Len(last.result.posts) <= last.args.limit
        /\ \A k \in DOMAIN last.result.posts :
              /\ last.result.posts[k].post_id \in DOMAIN store
              /\ store[last.result.posts[k].post_id].user_id = last.args.user_id
        /\ \A k \in 1..(Len(last.result.posts) - 1) :
              last.result.posts[k].created_at >= last.result.posts[k + 1].created_at

\* The collection st without the points of every user but user_id.
OwnStore(st, user_id) ==
    [i \in {j \in DOMAIN st : st[j].user_id = user_id} |-> st[i]]

\* The user whose request r takes a step.
Requester(r) == IF pc[r] = "idle" THEN Entered(r).user_id ELSE req[r].user_id

\* C20: a request reads and writes only its own user's records and no
\* request's step touches another request.  Every step of a request of user
\* u (a) gets from the store what it would get were the other users' points
\* not there: the similarity hits, the topic check built on them, the
\* series posts and the series_order; (b) leaves the points of every other
\* user, and the position and locals of every other request, as they were;
\* and (c) when it completes, stores a record of u only and answers with
\* what it read at its entry.  (Point ids, series ids and created_at come
\* from uuid4 and the clock and are equal up to those draws.)
C20_UsersIndependent ==
    [][\A r \in Reqs :
          /\ (pc[r] = "idle" /\ pc'[r] = "await" /\ Path(req'[r]) # "continue") =>
                /\ loc'[r].similar_posts
                     = search_similar_posts(OwnStore(store, req'[r].user_id), req'[r].user_id,
                                            req'[r].topic, max_similar_posts_to_retrieve)
                /\ Path(req'[r]) = "standalone" =>
                      /\ loc'[r].topic_exists
                           = _check_topic_from_results(
                                 search_similar_posts(OwnStore(store, req'[r].user_id),
                                                      req'[r].user_id, req'[r].topic,
                                                      max_similar_posts_to_retrieve)).topic_exists
                      /\ loc'[r].similar_topics
                           = _check_topic_from_results(
                                 search_similar_posts(OwnStore(store, req'[r].user_id),
                                                      req'[r].user_id, req'[r].topic,
                                                      max_similar_posts_to_retrieve)).similar_topics
          /\ (pc[r] = "idle" /\ pc'[r] # "idle" /\ Path(Entered(r)) = "continue") =>
                /\ ContinueLocals(Entered(r)).series_posts
                     = get_series_posts(OwnStore(store, Entered(r).user_id),
                                        Entered(r).user_id, Entered(r).series_id)
                /\ ContinueLocals(Entered(r)).series_order
                     = Len(get_series_posts(OwnStore(store, Entered(r).user_id),
                                            Entered(r).user_id, Entered(r).series_id)) + 1
          /\ pc'[r] # pc[r] =>
                /\ \A u \in Users \ {Requester(r)} : OwnStore(store', u) = OwnStore(store, u)
                /\ \A o \in Reqs \ {r} :
                      pc'[o] = pc[o] /\ req'[o] = req[o] /\ loc'[o] = loc[o]
          /\ (pc[r] = "await" /\ pc'[r] = "done") =>
                /\ \A i \in last'.wrote : store'[i].user_id = req[r].user_id
                /\ last'.result.topic_exists = loc[r].topic_exists
                /\ last'.result.similar_topics = loc[r].similar_topics
                /\ last'.result.message = loc[r].topic_message
                /\ last'.result.series_id = loc[r].series_id
                /\ last'.result.series_order = loc[r].series_order]_vars

\* C20 witness: a request was answered and stored its post while a request
\* of another user, entered before it, is still suspended at its generation
\* call.
C20_Witness ==
    /\ Responded
    /\ \E i \in last.wrote : store[i].user_id = last.args.user_id
    /\ \E r \in Reqs : \E o \in Reqs :
          /\ r < o
          /\ pc[r] = "await"
          /\ pc[o] = "done"
          /\ req[r].user_id # last.args.user_id

C22_SeriesFieldsTogether ==
    \A i \in DOMAIN store :
        /\ (store[i].series_order = None) <=> (store[i].series_id = None)
        /\ store[i].series_order # None =>
              /\ store[i].series_order \in Int
              /\ store[i].series_order >= 1

\* C22 witness: the store holds a post of a series and a standalone post.
C22_Witness ==
    /\ \E i \in DOMAIN store : store[i].series_id # None /\ store[i].series_order = 1
    /\ \E i \in DOMAIN store : store[i].series_id = None /\ store[i].series_order = None

\* C23 (as claimed): for an empty retrieval list the style-matching context
\* builder returns something other than an empty list of examples.
C23_BuilderYieldsNoExamples ==
    (fnOut.fn = "_build_similar_context" /\ fnIn = <<>>) =>
        /\ fnOut.out.writing_examples # <<>>
        /\ fnOut.out.tone_patterns # <<>>

\* C23 (amended): for an empty retrieval list the style-matching context that
\* reaches the generation prompt is the explicit text "No past examples available.
\* Create fresh content." (and "None established" for the tone patterns),
\* not an empty list of examples; for a non-empty list it is the examples.
C23_NoExamplesContext ==
    fnOut.fn = "generate_similar_post" =>
        /\ fnIn = <<>> =>
              /\ fnOut.out.writing_examples.text
                   = "No past examples available. Create fresh content."
              /\ fnOut.out.writing_examples.items = <<>>
              /\ fnOut.out.tone_patterns.text = "None established"
        /\ fnIn # <<>> =>
              /\ fnOut.out.writing_examples.text = ""
              /\ Len(fnOut.out.writing_examples.items) = Len(fnIn)
              /\ fnOut.out.tone_patterns.text = ""

\* C23 witness: the style-matching prompt context was built from an empty
\* retrieval list.
C23_Witness ==
    /\ fnOut.fn = "generate_similar_post"
    /\ fnIn = <<>>
    /\ fnOut.out.writing_examples.text # ""

\* The (tone, length) pair of the result at position k of fnIn.
PatternPair(k) == <<fnIn[k].metadata.tone, fnIn[k].metadata.length>>

\* The first position above the threshold that carries a pair.
FirstOccurrence(pair) == Min({k \in StrictlyAbove : PatternPair(k) = pair})

\* C24 (as claimed): the patterns_to_avoid list of the avoidance context
\* holds every (tone, length) pair of the results above the threshold exactly
\* once, so that results differing only in audience give one entry.
C24_ContextPatternsDeduplicated ==
    fnOut.fn = "_build_different_context" =>
        /\ Len(fnOut.out.patterns_to_avoid)
             = Cardinality({PatternPair(k) : k \in StrictlyAbove})
        /\ \A a \in DOMAIN fnOut.out.patterns_to_avoid :
              \A b \in DOMAIN fnOut.out.patterns_to_avoid :
                 ( /\ fnOut.out.patterns_to_avoid[a].tone = fnOut.out.patterns_to_avoid[b].tone
                   /\ fnOut.out.patterns_to_avoid[a].length
                        = fnOut.out.patterns_to_avoid[b].length )
                 => a = b

\* C24 (amended): the pattern list of the avoidance context that reaches the
\* generation prompt holds every (tone, length) pair of the results above the threshold
\* exactly once, in the order of the pairs' first occurrences, whatever the
\* audiences are; without such a result it is the fixed text.
C24_PatternsDeduplicated ==
    fnOut.fn = "generate_different_post" =>
        /\ StrictlyAbove = {} =>
              fnOut.out.patterns_to_avoid = FixedText("No specific patterns to avoid.")
        /\ StrictlyAbove # {} =>
              /\ fnOut.out.patterns_to_avoid.text = ""
              /\ Range(fnOut.out.patterns_to_avoid.items)
                   = {PatternPair(k) : k \in StrictlyAbove}
              /\ Len(fnOut.out.patterns_to_avoid.items)
                   = Cardinality({PatternPair(k) : k \in StrictlyAbove})
              /\ \A a \in DOMAIN fnOut.out.patterns_to_avoid.items :
                    \A b \in DOMAIN fnOut.out.patterns_to_avoid.items :
                       a < b => FirstOccurrence(fnOut.out.patterns_to_avoid.items[a])
                                  < FirstOccurrence(fnOut.out.patterns_to_avoid.items[b])

\* C24 witness: the avoidance prompt context was built from three results
\* above the threshold, the first two alike in tone and length and different
\* in audience, the third of another pair, and lists two patterns.
C24_Witness ==
    /\ fnOut.fn = "generate_different_post"
    /\ Len(fnIn) = 3
    /\ StrictlyAbove = {1, 2, 3}
    /\ PatternPair(1) = PatternPair(2)
    /\ fnIn[1].metadata.audience # fnIn[2].metadata.audience
    /\ PatternPair(3) # PatternPair(1)
    /\ Len(fnOut.out.patterns_to_avoid.items) = 2

\* The series ids the stored posts of a user carry.
OwnSeriesIds(user_id) ==
    {store[i].series_id : i \in {j \in DOMAIN store : store[j].user_id = user_id}} \ {None}

StoredSeries ==
    {<<store[i].user_id, store[i].series_id>> : i \in {j \in DOMAIN store : store[j].series_id # None}}

\* C26: in every state, whatever requests are in flight, the largest
\* series_order stored under a (user_id, series_id) is at most the number of
\* posts stored under it.
C26_OrderWithinCount ==
    \A s \in StoredSeries :
        \A i \in OwnSeriesPoints(s[1], s[2]) :
            store[i].series_order <= Cardinality(OwnSeriesPoints(s[1], s[2]))

\* C26 witness: a continuation of a series that holds a post has ended, and
\* the series holds as many posts as its largest series_order.
C26_Witness ==
    /\ last.op = "generate_post"
    /\ Path(last.args) = "continue"
    /\ OwnSeriesPoints(last.args.user_id, last.args.series_id) # {}
    /\ \E i \in OwnSeriesPoints(last.args.user_id, last.args.series_id) :
          store[i].series_order
            = Cardinality(OwnSeriesPoints(last.args.user_id, last.args.series_id))

\* C27: a standalone request whose search returned a post scoring exactly the
\* threshold counts it as a match (topic_exists, listed in similar_topics),
\* and in "different" mode leaves it out of the avoidance context: when no
\* hit scores above the threshold the request announces a fresh angle on a
\* known topic while topics_to_avoid and patterns_to_avoid are empty.
C27_ThresholdTreatedTwoWays ==
    \A r \in InFlight :
        Path(req[r]) = "standalone" =>
            \A k \in DOMAIN loc[r].similar_posts :
                loc[r].similar_posts[k].similarity_score = similarity_threshold =>
                    /\ loc[r].topic_exists
                    /\ \E m \in DOMAIN loc[r].similar_topics :
                          /\ loc[r].similar_topics[m].topic
                               = loc[r].similar_posts[k].metadata.topic
                          /\ loc[r].similar_topics[m].similarity_score = similarity_threshold
                    /\ req[r].style_mode = "different" =>
                          /\ \A m \in DOMAIN loc[r].context.topics_to_avoid :
                                loc[r].context.topics_to_avoid[m].similarity
                                  > similarity_threshold
                          /\ Len(loc[r].context.patterns_to_avoid)
                               = Len(loc[r].context.topics_to_avoid)
                          /\ (\A j \in DOMAIN loc[r].similar_posts :
                                 loc[r].similar_posts[j].similarity_score
                                   <= similarity_threshold)
                             => /\ loc[r].context.topics_to_avoid = <<>>
                                /\ loc[r].context.patterns_to_avoid = <<>>
                                /\ loc[r].topic_message.text = "I'll bring a fresh angle."
                                /\ loc[r].topic_message.percent = similarity_threshold

\* C27 witness: a standalone request in "different" mode is suspended at its
\* generation call with topic_exists true, a best hit exactly at the
\* threshold and nothing to avoid.
C27_Witness ==
    \E r \in InFlight :
        /\ Path(req[r]) = "standalone"
        /\ req[r].style_mode = "different"
        /\ loc[r].awaiting = "generate_different_post"
        /\ loc[r].similar_posts # <<>>
        /\ loc[r].similar_posts[1].similarity_score = similarity_threshold
        /\ loc[r].topic_exists
        /\ loc[r].context.topics_to_avoid = <<>>
        /\ loc[r].context.patterns_to_avoid = <<>>

\* Some stored post of the user scores at or above the threshold against the
\* topic.
TopicStored(user_id, topic) ==
    \E i \in DOMAIN store :
        /\ store[i].user_id = user_id
        /\ SimScore(topic, store[i].document) >= similarity_threshold

\* C28: a standalone request takes its novelty verdict from the posts stored
\* when it searches, keeps it while it is suspended, whatever is stored
\* meanwhile, and answers with it; it stores its own post after that.
C28_VerdictFromSearchTime ==
    [][\A r \in Reqs :
          /\ (pc[r] = "idle" /\ pc'[r] = "await" /\ Path(req'[r]) = "standalone") =>
                /\ loc'[r].topic_exists = TopicStored(req'[r].user_id, req'[r].topic)
                /\ store' = store
          /\ (pc[r] = "await" /\ pc'[r] = "await") =>
                /\ loc'[r].topic_exists = loc[r].topic_exists
                /\ loc'[r].similar_topics = loc[r].similar_topics
          /\ (pc[r] = "await" /\ pc'[r] = "done" /\ Path(req[r]) = "standalone") =>
                /\ last'.result.topic_exists = loc[r].topic_exists
                /\ last'.result.similar_topics = loc[r].similar_topics
                /\ last'.wrote \cap DOMAIN store = {}
                /\ last'.wrote # {}]_vars

\* C28 witness: two standalone requests of one user on one topic have both
\* ended and both stored their post, nothing else is stored, and the later
\* one was answered "fresh topic" although the other's post matches its topic.
C28_Witness ==
    /\ Responded
    /\ Path(last.args) = "standalone"
    /\ \A r \in Reqs : pc[r] = "done"
    /\ Cardinality(DOMAIN store) = MaxReqs
    /\ ~last.result.topic_exists
    /\ last.result.message.text = "This is a fresh topic for you!"
    /\ \A i \in DOMAIN store :
          /\ store[i].user_id = last.args.user_id
          /\ store[i].topic = last.args.topic
          /\ store[i].series_id = None
          /\ SimScore(last.args.topic, store[i].document) >= similarity_threshold

\* C29: a response carries the series_id and series_order of the record
\* its request stored, both None for a standalone request, and a series_id
\* it returns retrieves that record from the user's series.
C29_ResponseEchoesStoredSeries ==
    Responded =>
        /\ last.wrote # {}
        /\ \A i \in last.wrote :
              /\ i \in DOMAIN store
              /\ store[i].series_id = last.result.series_id
              /\ store[i].series_order = last.result.series_order
              /\ store[i].user_id = last.args.user_id
        /\ ~last.args.is_series =>
              /\ last.result.series_id = None
              /\ last.result.series_order = None
        /\ last.args.is_series =>
              /\ last.result.series_id # None
              /\ last.result.series_order # None
              /\ \A i \in last.wrote :
                    \E k \in DOMAIN get_series_posts(store, last.args.user_id, last.result.series_id) :
                        get_series_posts(store, last.args.user_id, last.result.series_id)[k].id = i

\* C29 witness: a request that started a series was answered with the
\* series_id minted for it, which the request itself did not carry, and the
\* record it stored is in that series at the returned order.
C29_Witness ==
    /\ Responded
    /\ Path(last.args) = "start"
    /\ last.args.series_id = None
    /\ last.result.series_id \in minted
    /\ last.result.series_order = 1
    /\ \E i \in last.wrote :
          /\ store[i].series_id = last.result.series_id
          /\ store[i].series_order = 1

\* C30: every series request, start or continuation, that no outside fault
\* stopped is answered with a response whose topic_exists is false and whose
\* similar_topics is empty, whatever the user has stored.
C30_SeriesRequestsAnsweredFresh ==
    ( /\ last.op = "generate_post"
      /\ last.args.is_series
      /\ last.result.detail \notin ExternalFaults ) =>
        /\ last.result.status = 200
        /\ ~last.result.topic_exists
        /\ last.result.similar_topics = <<>>

\* The part of C30 that the responses of series requests satisfy: a series
\* request never holds a positive verdict while it waits, and each response
\* to one has topic_exists false and no similar_topics.
SeriesResponsesFresh ==
    /\ \A r \in InFlight :
          req[r].is_series => ~loc[r].topic_exists /\ loc[r].similar_topics = <<>>
    /\ (Responded /\ last.args.is_series) =>
          /\ ~last.result.topic_exists
          /\ last.result.similar_topics = <<>>

\* A series was started on a topic on which the user already had a stored
\* post scoring at or above the threshold, and was answered "not existing".
StartOnKnownTopicFresh ==
    /\ Responded
    /\ Path(last.args) = "start"
    /\ ~last.result.topic_exists
    /\ last.result.similar_topics = <<>>
    /\ \E i \in DOMAIN store \ last.wrote :
          /\ store[i].user_id = last.args.user_id
          /\ store[i].series_id = None
          /\ SimScore(last.args.topic, store[i].document) >= similarity_threshold
    /\ \A r \in Reqs : pc[r] # "await"

====
